---- MODULE Spec2Model ----
(***************************************************************************)
(* A model of the managed heap of Funkschy/managed-heap: the in-band block  *)
(* headers (src/block/header.rs), the block handle (src/block/mod.rs), the  *)
(* address-sorted block vector (src/block/set.rs), the raw heap             *)
(* (src/heap.rs) and the mark & sweep collector (src/managed.rs), driven by *)
(* the two client object types of the collector's tests (IntegerObject and  *)
(* LinkedList).                                                             *)
(*                                                                          *)
(* The backing region is an array of words indexed from the base (word 0). *)
(* A block is the index of its header word; an address is the index of the *)
(* first payload word (header + 1).  Headers live in the same array as the  *)
(* payload, so a stale or overwritten header is read back as whatever the   *)
(* word holds.                                                              *)
(***************************************************************************)
EXTENDS Integers, Sequences, FiniteSets, TLC

VARIABLES mem, free_blocks, used_blocks, objs, fault, build, op, steps

vars == <<mem, free_blocks, used_blocks, objs, fault, build, op, steps>>

(* ------------------------------ bounds --------------------------------- *)

\* Words in the backing region (Heap::new is called with HeapWords * WORD_SIZE bytes).
HeapWords == 10

\* Bits of a half-word.  The code has 32 (or 16); the model scales the width
\* down so that a whole header word stays a small integer.
HalfBits == 8

\* Operations (alloc, free, gc) in one run of the program.
MaxOps == 10

\* Operations (alloc, free) in one run of the raw heap alone.
MaxRawOps == 6

\* Largest payload, in words, of a plain Heap::alloc request (besides
\* HALF_WORD_MAX, which is always tried).
MaxPayload == 3

(* ------------------------------ constants ------------------------------ *)

WORD_SIZE == 8

Half == 2 ^ HalfBits

HALF_WORD_MAX == Half - 1

\* Option::None for blocks and addresses.
None == 0 - 1

heap_start == 0

heap_end == HeapWords

Words == 0 .. (HeapWords - 1)

(* ------------------------------ BlockHeader ---------------------------- *)

\* The bits of a machine word.
WordBits == 2 * HalfBits

\* self.0 as Word, as usize: a value in the width of the word.
AsWord(x) == x % (2 ^ WordBits)

\* x as HalfWord: the low half.
AsHalfWord(x) == x % Half

\* a & b and a | b on words, bit by bit.
RECURSIVE BitAnd(_, _, _)
BitAnd(a, b, n) ==
    IF n = 0 THEN 0
    ELSE ((a % 2) * (b % 2)) + 2 * BitAnd(a \div 2, b \div 2, n - 1)

RECURSIVE BitOr(_, _, _)
BitOr(a, b, n) ==
    IF n = 0 THEN 0
    ELSE (IF (a % 2) + (b % 2) > 0 THEN 1 ELSE 0) + 2 * BitOr(a \div 2, b \div 2, n - 1)

\* a << k and a >> k on words.
Shl(a, k) == AsWord(a * (2 ^ k))

Shr(a, k) == a \div (2 ^ k)

\* BlockHeader::SHIFT, PRED_FLAG and SIZE_FLAG.
SHIFT == HalfBits

PRED_FLAG == Shl(HALF_WORD_MAX, SHIFT)

SIZE_FLAG == (2 ^ WordBits - 1) - PRED_FLAG

\* A new that puts the own size in the high half.
BlockHeader_new_swapped(pred_size, size) == BitOr(Shl(size, SHIFT), pred_size, WordBits)

BlockHeader_new(pred_size, size) == BitOr(Shl(pred_size, SHIFT), size, WordBits)

block_size(w) == AsHalfWord(w)

pred_block_size(w) == AsHalfWord(Shr(AsWord(w), SHIFT))

\* HalfWord addition as the release build performs it: it wraps.
AddHalf(a, b) == (a + b) % Half

\* The debug build checks every HalfWord addition and stops on overflow.
Overflows(bld, a, b) == bld = "debug" /\ a + b > HALF_WORD_MAX

\* A set_size that builds the word from the value alone.
hdr_set_size_whole(w, value) == AsWord(value)

hdr_inc_size(w, value) ==
    AsWord(BitAnd(w, PRED_FLAG, WordBits) + AddHalf(block_size(w), value))

hdr_set_size(w, value) == AsWord(BitAnd(w, PRED_FLAG, WordBits) + value)

hdr_set_pred_size(w, value) ==
    BitOr(Shl(value, SHIFT), BitAnd(w, SIZE_FLAG, WordBits), WordBits)

(* ------------------------------ Block ---------------------------------- *)

size(m, b) == block_size(m[b])

pred_size(m, b) == pred_block_size(m[b])

\* A next_block that takes the end of the region for a block.
next_block_inclusive(m, b, end) ==
    LET next_ptr == b + size(m, b)
    IN  IF next_ptr > end THEN None ELSE next_ptr

next_block(m, b, end) ==
    LET next_ptr == b + size(m, b)
    IN  IF next_ptr >= end THEN None ELSE next_ptr

pred_block(m, b, start) ==
    IF pred_size(m, b) = 0
    THEN None
    ELSE LET pred_ptr == b - pred_size(m, b)
         IN  IF pred_ptr < start THEN None ELSE pred_ptr

(* ------------------------------ BlockSet ------------------------------- *)

\* The vector is kept sorted by header address (Ord for Block compares the
\* pointers); binary_search gives the insertion point, or the place of an
\* equal entry, and the block is inserted there either way.
add_block(s, b) ==
    LET k == Cardinality({i \in 1 .. Len(s) : s[i] < b})
    IN  SubSeq(s, 1, k) \o <<b>> \o SubSeq(s, k + 1, Len(s))

contains(s, b) == \E i \in 1 .. Len(s) : s[i] = b

RemoveAt(s, i) == SubSeq(s, 1, i - 1) \o SubSeq(s, i + 1, Len(s))

\* A remove_block that removes at the place binary_search names, found or
\* not, as add_block inserts there.
remove_block_at_point(s, b) ==
    IF Cardinality({i \in 1 .. Len(s) : s[i] < b}) < Len(s)
    THEN RemoveAt(s, Cardinality({i \in 1 .. Len(s) : s[i] < b}) + 1)
    ELSE s

remove_block(s, b) ==
    IF contains(s, b)
    THEN RemoveAt(s, CHOOSE i \in 1 .. Len(s) : s[i] = b /\ \A j \in 1 .. (i - 1) : s[j] # b)
    ELSE s

\* A get_block that passes over a block of exactly the size asked for.
FitIndex_strict(m, s, min_size) ==
    IF \E i \in 1 .. Len(s) : size(m, s[i]) > min_size
    THEN CHOOSE i \in 1 .. Len(s) :
            /\ size(m, s[i]) > min_size
            /\ \A j \in 1 .. (i - 1) : ~(size(m, s[j]) > min_size)
    ELSE 0

\* A get_block that returns the smallest block that is big enough, the
\* first such in vector order.
FitIndex_best(m, s, min_size) ==
    IF \E i \in 1 .. Len(s) : size(m, s[i]) >= min_size
    THEN CHOOSE i \in 1 .. Len(s) :
            /\ size(m, s[i]) >= min_size
            /\ \A j \in 1 .. Len(s) :
                  size(m, s[j]) >= min_size
                      => \/ size(m, s[i]) < size(m, s[j])
                         \/ size(m, s[i]) = size(m, s[j]) /\ i <= j
    ELSE 0

\* Index of the block get_block returns: the first one in vector order whose
\* header says it is big enough; 0 when there is none.
FitIndex(m, s, min_size) ==
    IF \E i \in 1 .. Len(s) : size(m, s[i]) >= min_size
    THEN CHOOSE i \in 1 .. Len(s) :
            /\ size(m, s[i]) >= min_size
            /\ \A j \in 1 .. (i - 1) : size(m, s[j]) < min_size
    ELSE 0

TakeAt(s, i) ==
    IF i = 0
    THEN [blk |-> None, rest |-> s]
    ELSE [blk |-> s[i], rest |-> remove_block(s, s[i])]

get_block(m, s, min_size) == TakeAt(s, FitIndex(m, s, min_size))

Range(s) == {s[i] : i \in 1 .. Len(s)}

(* ------------------------------ Heap ----------------------------------- *)

\* A heap value: the region's words, the two block vectors and the build of
\* the program, with the bookkeeping of the operation in progress: whether it failed hard
\* ("panic") or left the region ("ub"), the words the heap's own code wrote
\* while they were payload of a used block, the addresses mark() marked and
\* the addresses the sweep freed.
HeapState(m, f, u, bld) ==
    [mem |-> m, free |-> f, used |-> u, bld |-> bld, fault |-> "none",
     hit |-> {}, marked |-> {}, freed |-> {}]

Fail(h, how) == IF h.fault # "none" THEN h ELSE [h EXCEPT !.fault = how]

PayloadOfUsed(m, u) ==
    {w \in Words : \E i \in 1 .. Len(u) : u[i] < w /\ w < u[i] + size(m, u[i])}

\* One word written by the heap's own code (a header write).
HeapWrite(h, a, v) ==
    IF h.fault # "none" THEN h
    ELSE IF a \notin Words THEN Fail(h, "ub")
    ELSE [h EXCEPT !.mem[a] = v,
                   !.hit = @ \cup (IF a \in PayloadOfUsed(h.mem, h.used) THEN {a} ELSE {})]

\* Splits the block by writing a new header at self + size, then the header
\* of self.  The block that follows the original one is not touched.
split_after(h, b, sz) ==
    IF ~(size(h.mem, b) > sz)
    THEN Fail(h, "panic")
    ELSE HeapWrite(HeapWrite(h, b + sz, BlockHeader_new(sz, size(h.mem, b) - sz)),
                   b, BlockHeader_new(pred_size(h.mem, b), sz))

\* let total_size = size + 1, when the addition does not stop the program.
TotalSize(n) == AddHalf(n, 1)

\* alloc_block once split_after has run on the block taken.
alloc_split(h2, block, total_size) ==
    [h |-> [h2 EXCEPT !.free = add_block(h2.free, block + total_size)], blk |-> block]

\* An alloc_block that has taken the first free block out of the vector
\* before it finds that none fits.
alloc_from_taking(h, total_size, got) ==
    IF got.blk = None
    THEN [h |-> [h EXCEPT !.free = IF h.free = <<>> THEN <<>> ELSE Tail(h.free)],
          blk |-> None]
    ELSE IF Overflows(h.bld, total_size, 2)
    THEN [h |-> Fail(h, "panic"), blk |-> None]
    ELSE IF size(h.mem, got.blk) > AddHalf(total_size, 2)
    THEN alloc_split(split_after([h EXCEPT !.free = got.rest], got.blk, total_size),
                     got.blk, total_size)
    ELSE [h |-> [h EXCEPT !.free = got.rest], blk |-> got.blk]

\* An alloc_block that splits every block larger than the total.
alloc_from_eager(h, total_size, got) ==
    IF got.blk = None
    THEN [h |-> h, blk |-> None]
    ELSE IF size(h.mem, got.blk) > total_size
    THEN alloc_split(split_after([h EXCEPT !.free = got.rest], got.blk, total_size),
                     got.blk, total_size)
    ELSE [h |-> [h EXCEPT !.free = got.rest], blk |-> got.blk]

\* alloc_block once get_block has answered.
alloc_from(h, total_size, got) ==
    IF got.blk = None
    THEN [h |-> h, blk |-> None]
    ELSE IF Overflows(h.bld, total_size, 2)
    THEN [h |-> Fail(h, "panic"), blk |-> None]
    ELSE IF size(h.mem, got.blk) > AddHalf(total_size, 2)
    THEN alloc_split(split_after([h EXCEPT !.free = got.rest], got.blk, total_size),
                     got.blk, total_size)
    ELSE [h |-> [h EXCEPT !.free = got.rest], blk |-> got.blk]

alloc_block(h, n) ==
    IF Overflows(h.bld, n, 1)
    THEN [h |-> Fail(h, "panic"), blk |-> None]
    ELSE alloc_from(h, TotalSize(n), get_block(h.mem, h.free, TotalSize(n)))

\* Heap::alloc once alloc_block has answered: the address is the word after
\* the header.
alloc_done(r) ==
    IF r.blk = None
    THEN [h |-> r.h, addr |-> None]
    ELSE [h |-> [r.h EXCEPT !.used = add_block(r.h.used, r.blk)], addr |-> r.blk + 1]

alloc(h, n) == alloc_done(alloc_block(h, n))

is_free(h, b) == contains(h.free, b)

\* A free that leaves the header of the block after the freed region alone.
free_fix_skip(h3, next, freed_next, sz) == h3

\* Heap::free, the last part: the pred_size of the block after the freed
\* region.
free_fix(h3, next, freed_next, sz) ==
    IF freed_next
    THEN IF next_block(h3.mem, next, heap_end) # None
         THEN HeapWrite(h3, next_block(h3.mem, next, heap_end),
                        hdr_set_pred_size(h3.mem[next_block(h3.mem, next, heap_end)], sz))
         ELSE h3
    ELSE IF next # None /\ ~is_free(h3, next)
         THEN HeapWrite(h3, next, hdr_set_pred_size(h3.mem[next], sz))
         ELSE h3

\* size = pred.size() after pred.inc_size(size).
free_grown(h3, next, freed_next, pred) ==
    free_fix(h3, next, freed_next, size(h3.mem, pred))

\* block.set_size(size); self.free_blocks.add_block(block).
free_insert(h2, block, sz) ==
    [HeapWrite(h2, block, hdr_set_size(h2.mem[block], sz))
        EXCEPT !.free = add_block(h2.free, block)]

\* Heap::free, the middle part: grow a free predecessor, or insert the block.
free_pred(h2, block, next, freed_next, sz) ==
    IF pred_block(h2.mem, block, heap_start) # None
       /\ is_free(h2, pred_block(h2.mem, block, heap_start))
    THEN IF Overflows(h2.bld, size(h2.mem, pred_block(h2.mem, block, heap_start)), sz)
         THEN Fail(h2, "panic")
         ELSE free_grown(
                HeapWrite(h2, pred_block(h2.mem, block, heap_start),
                          hdr_inc_size(h2.mem[pred_block(h2.mem, block, heap_start)], sz)),
                next, freed_next, pred_block(h2.mem, block, heap_start))
    ELSE free_fix(free_insert(h2, block, sz), next, freed_next, sz)

\* Heap::free, the first part: take a free successor out of free_blocks.
free_next(h1, block, next) ==
    IF next # None /\ is_free(h1, next)
    THEN IF Overflows(h1.bld, size(h1.mem, block), size(h1.mem, next))
         THEN Fail(h1, "panic")
         ELSE free_pred([h1 EXCEPT !.free = remove_block(h1.free, next)], block, next,
                        TRUE, AddHalf(size(h1.mem, block), size(h1.mem, next)))
    ELSE free_pred(h1, block, next, FALSE, size(h1.mem, block))

\* Heap::free(address).
free(h, address) ==
    free_next([h EXCEPT !.used = remove_block(h.used, address - 1)],
              address - 1, next_block(h.mem, address - 1, heap_end))

(* ------------------------------ client objects ------------------------- *)

\* The value the tests store in an object's value word.
ObjValue == 42

\* A write through an Address (Address::write), made by the client.
ClientWrite(h, a, v) ==
    IF h.fault # "none" THEN h
    ELSE IF a \notin Words THEN Fail(h, "ub")
    ELSE [h EXCEPT !.mem[a] = v]

\* is_marked of both test types: the first payload word is not 0.
is_marked(m, a) == m[a] # 0

\* IntegerObject::new after a successful alloc(2): [mark, value].
IntegerObject_init(h, a) == ClientWrite(ClientWrite(h, a, 0), a + 1, ObjValue)

\* LinkedList::new after a successful alloc(3): [mark, value, next]; nxt is
\* the address of the next node, or 0.
LinkedList_init(h, a, nxt) ==
    ClientWrite(ClientWrite(ClientWrite(h, a, 0), a + 1, ObjValue), a + 2, nxt)

\* self.0.write(true), remembering the address among those marked.
WriteMark(h, a) ==
    IF h.fault # "none" \/ a \notin Words THEN ClientWrite(h, a, 1)
    ELSE [ClientWrite(h, a, 1) EXCEPT !.marked = h.marked \cup {a}]

\* IntegerObject::mark.
IntegerObject_mark(h, a) == WriteMark(h, a)

\* LinkedList::mark: mark self, then the node the next word names.  The
\* recursion of the code has no visited check; depth bounds it here and a
\* cycle ends as a fault (the stack overflows).
RECURSIVE LinkedList_mark(_, _, _)
RECURSIVE LinkedList_next(_, _, _)
LinkedList_next(h1, a, depth) ==
    IF h1.fault # "none" THEN h1
    ELSE IF (a + 2) \notin Words THEN Fail(h1, "ub")
    ELSE IF h1.mem[a + 2] # 0 THEN LinkedList_mark(h1, h1.mem[a + 2], depth - 1)
    ELSE h1

LinkedList_mark(h, a, depth) ==
    IF h.fault # "none" THEN h
    ELSE IF depth = 0 THEN Fail(h, "panic")
    ELSE LinkedList_next(WriteMark(h, a), a, depth)

\* T::mark of the object at a, for the type T the collector is called with.
mark(h, a, kind) ==
    IF kind = "list" THEN LinkedList_mark(h, a, HeapWords) ELSE IntegerObject_mark(h, a)

\* unmark() of both test types.
unmark(h, a) == ClientWrite(h, a, 0)

(* ------------------------------ ManagedHeap::gc ------------------------ *)

\* The elements of a set of integers in ascending order.
RECURSIVE Ascending(_)
Ascending(S) ==
    IF S = {} THEN <<>>
    ELSE <<CHOOSE y \in S : \A z \in S : y <= z>>
            \o Ascending(S \ {CHOOSE y \in S : \A z \in S : y <= z})

\* for traceable in roots.flat_map(children) { traceable.mark() }
RECURSIVE MarkPhase(_, _, _)
MarkPhase(h, roots, kind) ==
    IF roots = <<>> THEN h
    ELSE MarkPhase(mark(h, Head(roots), kind), Tail(roots), kind)

\* The addresses of the used blocks whose object is not marked, in the
\* order of the used vector.
Freeable(h) ==
    SelectSeq([i \in 1 .. Len(h.used) |-> h.used[i] + 1],
              LAMBDA a : a \in Words /\ ~is_marked(h.mem, a))

\* is_marked() of a used block whose first payload word is past the region.
ReadsPastRegion(h) == \E i \in 1 .. Len(h.used) : (h.used[i] + 1) \notin Words

\* for a in freeable { self.heap.free(a) }
RECURSIVE SweepPhase(_, _)
SweepPhase(h, freeable) ==
    IF freeable = <<>> \/ h.fault # "none" THEN h
    ELSE SweepPhase([free(h, Head(freeable)) EXCEPT !.freed = h.freed \cup {Head(freeable)}],
                    Tail(freeable))

\* self.heap.used().for_each(|t| t.unmark())
RECURSIVE UnmarkPhase(_, _)
UnmarkPhase(h, i) ==
    IF i > Len(h.used) \/ h.fault # "none" THEN h
    ELSE UnmarkPhase(unmark(h, h.used[i] + 1), i + 1)

\* gc after the mark phase: the sweep, then the unmarking.
gc_sweep(hm) ==
    IF hm.fault # "none" THEN hm
    ELSE IF ReadsPastRegion(hm) THEN Fail(hm, "ub")
    ELSE UnmarkPhase(SweepPhase(hm, Freeable(hm)), 1)

\* ManagedHeap::gc::<T>(roots), kind naming T.
gc(h, roots, kind) == gc_sweep(MarkPhase(h, roots, kind))

(* ------------------------------ the program ---------------------------- *)

\* The client's live objects: address |-> [kind, next], for every address
\* alloc has returned and that has not been freed since.
Live == DOMAIN objs

\* The client types the collector's tests define.
Types == {"int", "list"}

Cur == HeapState(mem, free_blocks, used_blocks, build)

\* The record of the last call: its name and arguments, what it returned and
\* what it did; of a call that did not return, name is "stop" and call names
\* it.
NoOp == [name |-> "new", call |-> "new", n |-> 0, arg |-> 0, ret |-> None,
         roots |-> {}, hit |-> {}, marked |-> {}, relive |-> FALSE]

\* Heap::new(HeapWords * WORD_SIZE): one free block spanning the region.  The
\* other words are not initialised; 0 stands for what they hold.  While
\* the headers are consistent no such word is read before it is written.
InitHeap ==
    /\ HeapWords * WORD_SIZE <= HALF_WORD_MAX
    /\ mem = [w \in Words |-> IF w = 0 THEN BlockHeader_new(0, HeapWords) ELSE 0]
    /\ free_blocks = <<0>>
    /\ used_blocks = <<>>
    /\ objs = <<>>
    /\ fault = "none"
    /\ op = NoOp
    /\ steps = 0

\* One more operation of a run of at most max operations.
StepTo(max) == steps < max /\ steps' = steps + 1

Init == InitHeap /\ build = "debug"

\* The state after an operation that ended in heap value h, rec recording
\* the call and o being the client's objects after it.  An operation that
\* does not return stops the program where it was.
Commit(h, rec, o) ==
    IF h.fault # "none"
    THEN /\ fault' = h.fault
         /\ op' = [NoOp EXCEPT !.name = "stop", !.call = rec.name, !.n = rec.n,
                               !.arg = rec.arg]
         /\ UNCHANGED <<mem, free_blocks, used_blocks, objs>>
    ELSE /\ mem' = h.mem
         /\ free_blocks' = h.free
         /\ used_blocks' = h.used
         /\ op' = rec
         /\ objs' = o
         /\ UNCHANGED fault

Without(f, S) == [a \in (DOMAIN f) \ S |-> f[a]]

With(f, a, v) == [x \in (DOMAIN f) \cup {a} |-> IF x = a THEN v ELSE f[x]]

\* The state after alloc(n) returned addr and the client's writes, if any,
\* ended in heap value h.
AllocDone(max, n, addr, h, obj) ==
    /\ fault = "none"
    /\ StepTo(max)
    /\ Commit(h,
              [NoOp EXCEPT !.name = "alloc", !.n = n, !.ret = addr, !.hit = h.hit,
                           !.relive = (addr \in Live)],
              IF addr = None THEN objs ELSE With(objs, addr, obj))
    /\ UNCHANGED build

\* IntegerObject::new: ManagedHeap::alloc(2).unwrap(), then the
\* constructor's writes.
IntegerObject_new(r) ==
    AllocDone(MaxOps, 2, r.addr,
              IF r.addr = None THEN Fail(r.h, "panic") ELSE IntegerObject_init(r.h, r.addr),
              [kind |-> "int", next |-> 0])

NewInteger == IntegerObject_new(alloc(Cur, 2))

\* LinkedList::new: ManagedHeap::alloc(3).unwrap(), then the constructor's
\* writes.
LinkedList_new(r, nxt) ==
    AllocDone(MaxOps, 3, r.addr,
              IF r.addr = None THEN Fail(r.h, "panic") ELSE LinkedList_init(r.h, r.addr, nxt),
              [kind |-> "list", next |-> nxt])

NewList ==
    \E nxt \in {0} \cup {a \in Live : objs[a].kind = "list"} :
        LinkedList_new(alloc(Cur, 3), nxt)

FreeDone(max, a, h) ==
    /\ fault = "none"
    /\ StepTo(max)
    /\ Commit(h, [NoOp EXCEPT !.name = "free", !.arg = a, !.hit = h.hit],
              Without(objs, {a}))
    /\ UNCHANGED build

\* Heap::free(a) of a live address that no live node names as its next.
FreeOp(max) ==
    \E a \in Live :
        /\ \A x \in Live : objs[x].next # a
        /\ FreeDone(max, a, free(Cur, a))

Free == FreeOp(MaxOps)

GcDone(roots, h) ==
    /\ fault = "none"
    /\ StepTo(MaxOps)
    /\ Commit(h,
              [NoOp EXCEPT !.name = "gc", !.roots = roots, !.hit = h.hit,
                           !.marked = h.marked],
              Without(objs, h.freed))
    /\ UNCHANGED build

\* ManagedHeap::gc::<T>(roots): the root providers yield the objects of
\* roots, live objects of type T.
Gc ==
    \E T \in Types :
        \E roots \in SUBSET {a \in Live : objs[a].kind = T} :
            GcDone(roots, gc(Cur, Ascending(roots), T))

Next == NewInteger \/ NewList \/ Free \/ Gc

Spec == Init /\ [][Next]_vars

(* ------------------------------ the raw heap alone -------------------- *)

\* The payload sizes Heap::alloc is called with: the small ones and the two
\* largest a HalfWord holds.
RawSizes == (0 .. MaxPayload) \cup {HALF_WORD_MAX - 1, HALF_WORD_MAX}

\* Heap::alloc(n) alone: the client writes nothing.
Raw_alloc(n, r) == AllocDone(MaxRawOps, n, r.addr, r.h, [kind |-> "raw", next |-> 0])

RawAlloc == \E n \in RawSizes : Raw_alloc(n, alloc(Cur, n))

RawFree == FreeOp(MaxRawOps)

\* The program built either way.
InitRaw == InitHeap /\ build \in {"debug", "release"}

NextRaw == RawAlloc \/ RawFree

SpecRaw == InitRaw /\ [][NextRaw]_vars

(* ------------------------------ allocation and collection only ------- *)

\* The program when the client never calls Heap::free itself.
NextGc == NewInteger \/ NewList \/ Gc

SpecGc == Init /\ [][NextGc]_vars

(* ------------------------------ allocate, then free everything ------ *)

\* Operations in one run of allocations followed by frees.
MaxRoundOps == 8

\* Heap::alloc(n) while nothing has been freed yet.
Round_alloc(n, r) ==
    /\ op.name \in {"new", "alloc"}
    /\ AllocDone(MaxRoundOps, n, r.addr, r.h, [kind |-> "raw", next |-> 0])

RoundAlloc == \E n \in RawSizes : Round_alloc(n, alloc(Cur, n))

\* Heap::free of one of the addresses allocated, in any order.
RoundFree == FreeOp(MaxRoundOps)

\* Heap::alloc(size_in_words - 1) once every address has been freed.
Round_final(r) ==
    /\ op.name = "free"
    /\ Live = {}
    /\ AllocDone(MaxRoundOps, HeapWords - 1, r.addr, r.h, [kind |-> "raw", next |-> 0])

RoundFinal == Round_final(alloc(Cur, HeapWords - 1))

NextRound == RoundAlloc \/ RoundFree \/ RoundFinal

SpecRound == InitRaw /\ [][NextRound]_vars

(* ------------------------------ a header alone ----------------------- *)

\* Calls on one header in a run.
MaxHeaderOps == 3

\* The HalfWord values the header functions are called with: the smallest,
\* the largest and those around the highest bit.
HeaderValues ==
    {0, 1, MaxPayload, Half \div 2 - 1, Half \div 2, HALF_WORD_MAX - 1, HALF_WORD_MAX}

\* No header has been built: the word 0 stands for the variable to come.
InitHeader ==
    /\ mem = [w \in {0} |-> 0]
    /\ free_blocks = <<>>
    /\ used_blocks = <<>>
    /\ objs = <<>>
    /\ fault = "none"
    /\ op = NoOp
    /\ steps = 0
    /\ build \in {"debug", "release"}

\* The state after a call on the header that ended in h.
Header_done(name, p, v, h) ==
    /\ fault = "none"
    /\ StepTo(MaxHeaderOps)
    /\ Commit(h, [NoOp EXCEPT !.name = name, !.arg = p, !.n = v], objs)
    /\ UNCHANGED build

\* let header = BlockHeader::new(p, s).
HeaderNew ==
    \E p, s \in HeaderValues :
        Header_done("BlockHeader_new", p, s, [Cur EXCEPT !.mem[0] = BlockHeader_new(p, s)])

\* header.set_size(v).
HeaderSetSize ==
    /\ op.name # "new"
    /\ \E v \in HeaderValues :
          Header_done("set_size", 0, v, [Cur EXCEPT !.mem[0] = hdr_set_size(mem[0], v)])

\* header.inc_size(v): block_size() + value is a HalfWord addition.
HeaderIncSize ==
    /\ op.name # "new"
    /\ \E v \in HeaderValues :
          Header_done("inc_size", 0, v,
                      IF Overflows(build, block_size(mem[0]), v) THEN Fail(Cur, "panic")
                      ELSE [Cur EXCEPT !.mem[0] = hdr_inc_size(mem[0], v)])

\* header.set_pred_size(v).
HeaderSetPredSize ==
    /\ op.name # "new"
    /\ \E v \in HeaderValues :
          Header_done("set_pred_size", 0, v,
                      [Cur EXCEPT !.mem[0] = hdr_set_pred_size(mem[0], v)])

NextHeader == HeaderNew \/ HeaderSetSize \/ HeaderIncSize \/ HeaderSetPredSize

SpecHeader == InitHeader /\ [][NextHeader]_vars

(* ------------------------------ writes through a block -------------- *)

\* assert!((offset as usize * WORD_SIZE) < self.size() as usize).
write_at_in_bounds(m, b, offset) == offset * WORD_SIZE < size(m, b)

\* Block::write_at(offset, value) of the block at b: the word at
\* header + 1 + offset is written once the assertion has passed; a word past
\* the region is outside the allocation.
write_at(h, b, offset, value) ==
    IF ~write_at_in_bounds(h.mem, b, offset) THEN Fail(h, "panic")
    ELSE IF (b + 1 + offset) \notin Words THEN Fail(h, "ub")
    ELSE [h EXCEPT !.mem[b + 1 + offset] = value]

\* The state after write_at(offset, value) of block b ended in h.
Write_done(b, offset, h) ==
    /\ fault = "none"
    /\ StepTo(MaxRawOps)
    /\ Commit(h, [NoOp EXCEPT !.name = "write_at", !.arg = b, !.n = offset], objs)
    /\ UNCHANGED build

\* write_at on the block of a live address (let block: Block =
\* address.into()), at any offset up to one past the largest payload.
BlockWrite ==
    \E a \in Live :
        \E offset \in 0 .. (MaxPayload + 1) :
            Write_done(a - 1, offset, write_at(Cur, a - 1, offset, ObjValue))

NextWrite == RawAlloc \/ BlockWrite

SpecWrite == InitRaw /\ [][NextWrite]_vars

(* ------------------------------ the whole heap in one block ---------- *)

\* Heap::alloc(size_in_words - 1): the payload of a block spanning the region.
WholeAlloc == Raw_alloc(HeapWords - 1, alloc(Cur, HeapWords - 1))

NextWhole == WholeAlloc \/ RawAlloc \/ RawFree

SpecWhole == InitRaw /\ [][NextWhole]_vars

(* ------------------------------ one collect call, step by step ------- *)

\* The positions inside ManagedHeap::gc: in the mark loop, in the free loop
\* (freeable has been collected), in the unmark loop.
GcPhases == {"gc_mark", "gc_sweep", "gc_unmark"}

\* The frame of a gc::<T>(roots) call at its first statement: the roots left
\* to mark, the freeable vector, the unmark iterator and its position, and
\* the calls made so far in their order.
GcFrame(kind, roots) ==
    [name |-> "gc_mark", call |-> "gc", n |-> 0, arg |-> 0, ret |-> None,
     roots |-> roots, hit |-> {}, marked |-> {}, relive |-> FALSE,
     kind |-> kind, todo |-> Ascending(roots), scanned |-> <<>>,
     freeable |-> <<>>, targets |-> <<>>, idx |-> 0, kept |-> {}, log |-> <<>>]

\* The addresses of the objects in the used vector, in its order.
UsedObjects(u) == [i \in 1 .. Len(u) |-> u[i] + 1]

\* An unmark loop over the objects the sweep has read.
UnmarkTargets_stale(h, fr) == fr.scanned

\* self.heap.used().map(Address::from).map(T::from): the objects the unmark
\* loop visits.
UnmarkTargets(h, fr) == UsedObjects(h.used)

\* One call of kind ev on each address of s, in order.
Calls(ev, s) == [i \in 1 .. Len(s) |-> [ev |-> ev, a |-> s[i]]]

\* One step inside a collect call that ended in heap value h and frame fr.
GcStep_to(h, fr, o) ==
    /\ fault = "none"
    /\ Commit(h, fr, o)
    /\ UNCHANGED <<build, steps>>

\* The client's constructors, between collect calls.
CollectNewInteger == op.name \notin GcPhases /\ NewInteger

CollectNewList == op.name \notin GcPhases /\ NewList

\* gc::<T>(roots) is called.
GcCall ==
    /\ op.name \notin GcPhases
    /\ fault = "none"
    /\ StepTo(MaxOps)
    /\ \E T \in Types :
         \E roots \in SUBSET {a \in Live : objs[a].kind = T} :
             op' = GcFrame(T, roots)
    /\ UNCHANGED <<mem, free_blocks, used_blocks, objs, fault, build>>

\* traceable.mark() of the next root.
GcMark ==
    /\ op.name = "gc_mark"
    /\ op.todo # <<>>
    /\ GcStep_to(mark(Cur, Head(op.todo), op.kind),
                 [op EXCEPT !.todo = Tail(op.todo),
                            !.log = Append(op.log, [ev |-> "mark", a |-> Head(op.todo)])],
                 objs)

\* let freeable = self.heap.used()...filter(|t| !t.is_marked())...collect():
\* is_marked() of every used object, once the mark loop has ended.
GcScan ==
    /\ op.name = "gc_mark"
    /\ op.todo = <<>>
    /\ GcStep_to(IF ReadsPastRegion(Cur) THEN Fail(Cur, "ub") ELSE Cur,
                 [op EXCEPT !.name = "gc_sweep",
                            !.scanned = UsedObjects(used_blocks),
                            !.freeable = Freeable(Cur),
                            !.log = op.log \o Calls("read", UsedObjects(used_blocks))],
                 objs)

\* A sweep that walks used() while it frees: each free shortens the vector by
\* one, and the walk, moving on by one, passes over the next address.
GcFree_lazy ==
    /\ op.name = "gc_sweep"
    /\ op.freeable # <<>>
    /\ GcStep_to(free(Cur, Head(op.freeable)),
                 [op EXCEPT !.freeable = IF Tail(op.freeable) = <<>> THEN <<>>
                                         ELSE Tail(Tail(op.freeable)),
                            !.log = Append(op.log, [ev |-> "free", a |-> Head(op.freeable)])],
                 Without(objs, {Head(op.freeable)}))

\* self.heap.free(a) of the next address of freeable.
GcFree ==
    /\ op.name = "gc_sweep"
    /\ op.freeable # <<>>
    /\ GcStep_to(free(Cur, Head(op.freeable)),
                 [op EXCEPT !.freeable = Tail(op.freeable),
                            !.log = Append(op.log, [ev |-> "free", a |-> Head(op.freeable)])],
                 Without(objs, {Head(op.freeable)}))

\* The free loop has ended: self.heap.used() of the unmark loop.
GcSwept ==
    /\ op.name = "gc_sweep"
    /\ op.freeable = <<>>
    /\ GcStep_to(Cur,
                 [op EXCEPT !.name = "gc_unmark",
                            !.targets = UnmarkTargets(Cur, op),
                            !.idx = 1,
                            !.kept = Range(used_blocks)],
                 objs)

\* t.unmark() of the next used object.
GcUnmark ==
    /\ op.name = "gc_unmark"
    /\ op.idx <= Len(op.targets)
    /\ GcStep_to(unmark(Cur, op.targets[op.idx]),
                 [op EXCEPT !.idx = op.idx + 1,
                            !.log = Append(op.log, [ev |-> "unmark", a |-> op.targets[op.idx]])],
                 objs)

\* gc returns.
GcReturn ==
    /\ op.name = "gc_unmark"
    /\ op.idx > Len(op.targets)
    /\ GcStep_to(Cur, [op EXCEPT !.name = "gc_done"], objs)

NextCollect ==
    \/ CollectNewInteger
    \/ CollectNewList
    \/ GcCall
    \/ GcMark
    \/ GcScan
    \/ GcFree
    \/ GcSwept
    \/ GcUnmark
    \/ GcReturn

SpecCollect == Init /\ [][NextCollect]_vars

(* ------------------------------ construction -------------------------- *)

\* Heap::H_SIZE: the size of a word in bytes.
H_SIZE == WORD_SIZE

\* The byte sizes Heap::new is called with: up to regions of two words more
\* than a HalfWord counts.
MaxBytes == (HALF_WORD_MAX + 2) * WORD_SIZE

\* A size in words that rounds the bytes up.
Heap_words_ceil(size_bytes) == (size_bytes + H_SIZE - 1) \div H_SIZE

\* let size = size / Heap::H_SIZE as usize.
Heap_words(size_bytes) == size_bytes \div H_SIZE

\* Block::new(ptr, sz, psz) on a region of the given words: the
\* header is written at ptr.  The other words are not initialised; 0 stands
\* for what they hold.
Block_new(words, ptr, sz, psz) ==
    [w \in {ptr} \cup (heap_start .. (heap_start + words - 1)) |->
        IF w = ptr THEN BlockHeader_new(psz, sz) ELSE 0]

\* BlockSet::from_raw(ptr, size): one block in an empty vector.
from_raw(ptr) == add_block(<<>>, ptr)

\* Heap::new(size_bytes).  acquired: the host allocator returned a region;
\* when it returned null the unwrap panics, which the fault "no_region" names.
\* A region shorter than one word cannot hold the header Block::new writes:
\* the write is outside the allocation, and lands says whether it ended in
\* memory the process may write or stopped the program.
Heap_new(size_bytes, acquired, lands) ==
    LET words == Heap_words(size_bytes)
        h == [mem |-> Block_new(words, heap_start, words % Half, 0),
              free |-> from_raw(heap_start),
              used |-> <<>>,
              size |-> words,
              heap_end |-> heap_start + words,
              fault |-> "none"]
    IN  IF size_bytes > HALF_WORD_MAX THEN [h EXCEPT !.fault = "panic"]
        ELSE IF ~acquired THEN [h EXCEPT !.fault = "no_region"]
        ELSE IF size_bytes < WORD_SIZE /\ ~lands THEN [h EXCEPT !.fault = "ub"]
        ELSE h

\* The program before it has constructed its heap.
InitNew ==
    /\ mem = <<>>
    /\ free_blocks = <<>>
    /\ used_blocks = <<>>
    /\ objs = <<>>
    /\ fault = "none"
    /\ op = NoOp
    /\ steps = 0
    /\ build \in {"debug", "release"}

\* The state after Heap::new(size_bytes) ended in h.
New_done(size_bytes, h) ==
    /\ fault = "none"
    /\ StepTo(1)
    /\ Commit(h,
              [name |-> "Heap_new", call |-> "Heap_new", n |-> size_bytes, arg |-> 0,
               ret |-> None, roots |-> {}, hit |-> {}, marked |-> {}, relive |-> FALSE,
               size |-> h.size, heap_end |-> h.heap_end],
              objs)
    /\ UNCHANGED build

HeapNew ==
    \E size_bytes \in 0 .. MaxBytes :
        \E acquired, lands \in BOOLEAN :
            New_done(size_bytes, Heap_new(size_bytes, acquired, lands))

NextNew == HeapNew

SpecNew == InitNew /\ [][NextNew]_vars

(* ------------------------------ a BlockSet alone -------------------- *)

\* Calls on one BlockSet in a run.
MaxSetOps == 4

\* The sizes get_block is asked for.
SetSizes == 1 .. MaxPayload

\* BlockSet::default(): an empty vector.  Every word of the region holds the
\* header of a block the client may add, Block::new(ptr, size, 0): all of one
\* size, or of sizes 1 to MaxPayload in turn.
InitSet ==
    /\ \/ mem = [w \in Words |-> BlockHeader_new(0, MaxPayload)]
       \/ mem = [w \in Words |-> BlockHeader_new(0, (w % MaxPayload) + 1)]
    /\ free_blocks = <<>>
    /\ used_blocks = <<>>
    /\ objs = <<>>
    /\ fault = "none"
    /\ op = NoOp
    /\ steps = 0
    /\ build = "debug"

\* The state after a call on the set that left the vector s.
Set_done(name, b, min_size, ret, s) ==
    /\ StepTo(MaxSetOps)
    /\ Commit([Cur EXCEPT !.free = s],
              [NoOp EXCEPT !.name = name, !.arg = b, !.n = min_size, !.ret = ret],
              objs)
    /\ UNCHANGED build

\* set.add_block(b), of any block.
SetAdd == \E b \in Words : Set_done("add_block", b, 0, None, add_block(free_blocks, b))

\* set.remove_block(b), of any block.
SetRemove ==
    \E b \in Words : Set_done("remove_block", b, 0, None, remove_block(free_blocks, b))

\* set.get_block(min_size) once it has answered.
Set_got(min_size, got) == Set_done("get_block", 0, min_size, got.blk, got.rest)

SetGet == \E min_size \in SetSizes : Set_got(min_size, get_block(mem, free_blocks, min_size))

NextSet == SetAdd \/ SetRemove \/ SetGet

SpecSet == InitSet /\ [][NextSet]_vars

(* ------------------------------ views of a state ----------------------- *)

\* The header addresses in either vector.
Blocks == Range(free_blocks) \cup Range(used_blocks)

\* The words of block b, by its header: [b, b + own_size).
Extent(m, b) == {w \in b .. (b + size(m, b) - 1) : TRUE}

\* How many entries of the two vectors hold word w.
Holders(w) ==
    Cardinality({i \in 1 .. Len(free_blocks) : w \in Extent(mem, free_blocks[i])})
    + Cardinality({i \in 1 .. Len(used_blocks) : w \in Extent(mem, used_blocks[i])})

\* The block whose header immediately precedes b in address order.
AddrPred(b) == CHOOSE p \in Blocks : p < b /\ \A q \in Blocks : q < b => q <= p

RECURSIVE SumSizes(_, _)
SumSizes(m, s) == IF s = <<>> THEN 0 ELSE size(m, Head(s)) + SumSizes(m, Tail(s))

(* ------------------------------ claims --------------------------------- *)

\* C1 (coverage, P1): the blocks of free_blocks and used_blocks tile the
\* region: every word of the region lies in exactly one of them, no block
\* reaches past the end, and so the own_size values sum to size_in_words.
C1_Coverage ==
    /\ \A w \in Words : Holders(w) = 1
    /\ \A b \in Blocks : size(mem, b) >= 1 /\ b + size(mem, b) <= heap_end
    /\ SumSizes(mem, free_blocks) + SumSizes(mem, used_blocks) = HeapWords

\* C2 (live allocations never overlap): the words of a live allocation's
\* block are shared with no other used block and with no free block, and
\* alloc never returns an address that is still live.
C2_LiveDisjoint ==
    /\ \A a \in Live :
          /\ \A i \in 1 .. Len(used_blocks) :
                used_blocks[i] # a - 1
                    => Extent(mem, a - 1) \cap Extent(mem, used_blocks[i]) = {}
          /\ \A i \in 1 .. Len(free_blocks) :
                Extent(mem, a - 1) \cap Extent(mem, free_blocks[i]) = {}
    /\ ~op.relive

\* C3 (adjacency, P2): every block but the first has pred_size equal to the
\* own_size of the block whose header comes just before it in address order.
C3_Adjacency ==
    \A b \in Blocks :
        (\E p \in Blocks : p < b) => pred_size(mem, b) = size(mem, AddrPred(b))

\* C4 (no adjacent frees, P4): no two address-adjacent blocks are both in
\* free_blocks.
C4_NoAdjacentFrees ==
    \A b \in Range(free_blocks) :
        (\E p \in Blocks : p < b) => AddrPred(b) \notin Range(free_blocks)

\* The headers reached from the base by stepping own_size words at a time:
\* the blocks of the region.
RECURSIVE Chain(_, _, _)
Chain(m, b, fuel) ==
    IF b >= heap_end \/ fuel = 0 \/ size(m, b) = 0 THEN {}
    ELSE {b} \cup Chain(m, b + size(m, b), fuel - 1)

RegionBlocks == Chain(mem, heap_start, HeapWords)

\* C5 (partition, P3): every block of the region is in exactly one of
\* free_blocks and used_blocks, and no header address is in both.
C5_Partition ==
    /\ Range(free_blocks) \cap Range(used_blocks) = {}
    /\ \A b \in RegionBlocks : b \in Blocks

\* C6 (payload untouched): no header write of alloc, free or gc lands on a
\* payload word of a block that is in used_blocks when it is written.
C6_PayloadUntouched == op.hit = {}

\* C7 (size fit, P5): the block a successful alloc(n) returns has
\* own_size >= n + 1.
C7_SizeFit ==
    (op.name = "alloc" /\ op.ret # None) => size(mem, op.ret - 1) >= op.n + 1

\* A gc call that has returned.
GcStep == op'.name = "gc" /\ steps' = steps + 1 /\ fault' = "none"

\* C8 (collection soundness, P6): when gc returns, used_blocks holds exactly
\* the blocks that were used before the call and whose object was marked in
\* the mark phase; every other block that was used is gone from used_blocks
\* and each of its words lies in a free block.
C8_Soundness ==
    [][GcStep =>
        /\ Range(used_blocks') = {b \in Range(used_blocks) : (b + 1) \in op'.marked}
        /\ \A b \in Range(used_blocks) :
              (b + 1) \notin op'.marked
                  => \A w \in Extent(mem, b) :
                        \E f \in Range(free_blocks') : w \in Extent(mem', f)]_vars

\* C9 (unmark, P7): when gc returns, no object whose block is in used_blocks
\* is marked; and so, objects being created unmarked, no used object is
\* marked in any state between two calls.
C9_Unmarked ==
    \A b \in Range(used_blocks) : (b + 1) \in Words => ~is_marked(mem, b + 1)

\* C10 (gc is idempotent): a gc that follows a gc with the same roots, with
\* no operation in between, changes no word and neither vector.
C10_Idempotent ==
    [][(op.name = "gc" /\ GcStep /\ op'.roots = op.roots)
        => (mem' = mem /\ free_blocks' = free_blocks /\ used_blocks' = used_blocks)]_vars

\* C11 (collecting with no roots empties the heap): after allocs and
\* collections only, a gc whose roots yield no object returns with
\* used_blocks empty and free_blocks holding one block, at the base,
\* spanning the whole region.
C11_EmptyRoots ==
    [][(GcStep /\ op'.roots = {})
        => /\ used_blocks' = <<>>
           /\ free_blocks' = <<heap_start>>
           /\ size(mem', heap_start) = HeapWords]_vars

\* C12 (full coalescing round trip): from a fresh heap, once every address
\* of a run of allocations has been freed, in any order and with no alloc in
\* between, the heap is one free block of size_in_words words at the base,
\* and alloc(size_in_words - 1) then succeeds.
C12_RoundTrip ==
    [][/\ (op'.name = "free" /\ Live' = {})
            => /\ used_blocks' = <<>>
               /\ free_blocks' = <<heap_start>>
               /\ size(mem', heap_start) = HeapWords
       /\ (op.name = "free" /\ Live = {} /\ op'.name = "alloc" /\ op'.n = HeapWords - 1)
            => op'.ret # None]_vars

\* Some block of free_blocks has own_size >= n + 1.
Fits(n) == \E i \in 1 .. Len(free_blocks) : size(mem, free_blocks[i]) >= n + 1

\* A call of alloc(op'.n), returned or not.
AllocCall ==
    /\ steps' = steps + 1
    /\ \/ op'.name = "alloc"
       \/ op'.name = "stop" /\ op'.call = "alloc"

\* C13 (out of memory): alloc(n) with n + 1 <= HALF_WORD_MAX returns an
\* address when some free block has own_size >= n + 1 and returns no address
\* when none has; in neither case does the call fail hard.
C13_OutOfMemory ==
    [][(AllocCall /\ op'.n + 1 <= HALF_WORD_MAX)
          => /\ op'.name = "alloc"
             /\ (op'.ret = None) <=> ~Fits(op'.n)]_vars

\* An alloc within the size limit has returned no address although
\* free_blocks is not empty.
C13_Witness ==
    /\ op.name = "alloc"
    /\ op.n + 1 <= HALF_WORD_MAX
    /\ op.ret = None
    /\ free_blocks # <<>>

\* C14 (a failed alloc changes nothing): when alloc returns no address, no
\* word of the region (so no header) and neither vector has changed.
C14_FailedAllocFrame ==
    [][(steps' = steps + 1 /\ op'.name = "alloc" /\ op'.ret = None)
          => /\ mem' = mem
             /\ free_blocks' = free_blocks
             /\ used_blocks' = used_blocks]_vars

\* An alloc has returned no address in a heap that holds both used and free
\* blocks.
C14_Witness ==
    /\ op.name = "alloc"
    /\ op.ret = None
    /\ used_blocks # <<>>
    /\ free_blocks # <<>>

\* An alloc that has returned an address.
AllocReturned == steps' = steps + 1 /\ op'.name = "alloc" /\ op'.ret # None

\* The splitting policy for the free block F = header of the address
\* returned, of own_size fsz before the call, and total = n + 1.
SplitPolicy(F, fsz, total) ==
    IF fsz > total + 2
    THEN /\ size(mem', F) = total
         /\ (F + total) \in Words
         /\ size(mem', F + total) = fsz - total
         /\ free_blocks' = add_block(remove_block(free_blocks, F), F + total)
    ELSE /\ total <= fsz
         /\ size(mem', F) = fsz
         /\ free_blocks' = remove_block(free_blocks, F)

\* C15 (splitting policy): alloc(n) taking free block F, with total = n + 1:
\* if F.own_size > total + 2 the block returned has own_size total and a
\* free block of own_size F.own_size - total is inserted at F + total;
\* otherwise total <= F.own_size <= total + 2, F is returned whole with its
\* own_size unchanged and nothing is inserted.
C15_SplitPolicy ==
    [][AllocReturned
          => SplitPolicy(op'.ret - 1, size(mem, op'.ret - 1), op'.n + 1)]_vars

AddressSorted(s) == \A i, j \in 1 .. Len(s) : i < j => s[i] <= s[j]

C17_HeaderOnly ==
    [][(AllocCall /\ op'.n = 0 /\ free_blocks # <<>> /\ build = "debug")
          => /\ op'.name = "alloc"
             /\ op'.ret # None
             /\ size(mem', op'.ret - 1) = 1]_vars

\* C17, amended: alloc(0) returns an address whenever some free block has
\* own_size >= 1; the block returned has own_size 1 when the free block
\* taken had more than 3 words, and otherwise is that block whole, of
\* own_size 1, 2 or 3.
C17_ZeroAlloc ==
    [][(AllocCall /\ op'.n = 0 /\ Fits(0))
          => /\ op'.name = "alloc"
             /\ op'.ret # None
             /\ size(mem, op'.ret - 1) >= 1
             /\ size(mem', op'.ret - 1) =
                    IF size(mem, op'.ret - 1) > 3 THEN 1 ELSE size(mem, op'.ret - 1)]_vars

\* alloc(0) has returned a block of more than one word.
C17_Witness ==
    /\ op.name = "alloc"
    /\ op.n = 0
    /\ op.ret # None
    /\ size(mem, op.ret - 1) > 1

\* P1 to P4 of the spec: coverage, adjacency, partition, no adjacent frees.
HeapInvariants == C1_Coverage /\ C3_Adjacency /\ C5_Partition /\ C4_NoAdjacentFrees

\* A free(op'.arg) that has returned.
FreeReturned == steps' = steps + 1 /\ op'.name = "free"

\* The free block that holds word w, by the headers of m.
FreeHolder(m, f, w) == CHOOSE b \in Range(f) : b <= w /\ w < b + size(m, b)

\* C18 (free preserves the heap invariants): free(a) of a used block B, in a
\* state where P1 to P4 hold, ends in a state where B is not in used_blocks,
\* no two adjacent blocks are both free, every block but the first has
\* pred_size equal to its predecessor's own_size, and the block that follows
\* the merged free region has pred_size equal to the merged size.
C18_FreePreserves ==
    [][(FreeReturned /\ HeapInvariants /\ contains(used_blocks, op'.arg - 1))
          => /\ ~contains(used_blocks', op'.arg - 1)
             /\ C4_NoAdjacentFrees'
             /\ C3_Adjacency'
             /\ \E b \in Range(free_blocks') :
                   /\ b <= op'.arg - 1
                   /\ op'.arg - 1 < b + size(mem', b)
             /\ LET M == FreeHolder(mem', free_blocks', op'.arg - 1)
                    N == M + size(mem', M)
                IN  N < heap_end => pred_size(mem', N) = size(mem', M)]_vars

\* A free has merged the block into its free predecessor, P1 to P4 hold and
\* a block follows the merged region.
C18_Witness ==
    /\ op.name = "free"
    /\ HeapInvariants
    /\ \E f \in Range(free_blocks) :
          /\ f < op.arg - 1
          /\ op.arg - 1 < f + size(mem, f)
          /\ f + size(mem, f) < heap_end

\* The calls a collect call has made so far, in their order.
GcLog == IF op.name \in GcPhases \cup {"gc_done"} THEN op.log ELSE <<>>

\* C19 (collect phase order): within one collect call every mark() of a root
\* comes before the sweep's first is_marked() read, every free of the sweep
\* comes before the first unmark(), and unmark() is called only on objects
\* whose block is in used_blocks after the sweep.
C19_PhaseOrder ==
    /\ \A i, j \in 1 .. Len(GcLog) :
          (GcLog[i].ev = "mark" /\ GcLog[j].ev = "read") => i < j
    /\ \A i, j \in 1 .. Len(GcLog) :
          (GcLog[i].ev = "free" /\ GcLog[j].ev = "unmark") => i < j
    /\ \A j \in 1 .. Len(GcLog) :
          GcLog[j].ev = "unmark" => (GcLog[j].a - 1) \in op.kept

\* A collect call has returned after marking a root, freeing an object and
\* unmarking a survivor.
C19_Witness ==
    /\ op.name = "gc_done"
    /\ \E i, j, k \in 1 .. Len(op.log) :
          op.log[i].ev = "mark" /\ op.log[j].ev = "free" /\ op.log[k].ev = "unmark"

\* C20 (construction): new(size_bytes) yields a heap whose size_in_words is
\* size_bytes / W by integer division, whose used_blocks is empty and whose
\* free_blocks holds exactly one block: its header is at base, its own_size
\* is size_in_words and its pred_size is 0.
C20_Construction ==
    op.name = "Heap_new" =>
        /\ op.size = op.n \div WORD_SIZE
        /\ op.size * WORD_SIZE <= op.n /\ op.n < (op.size + 1) * WORD_SIZE
        /\ op.heap_end = heap_start + op.size
        /\ used_blocks = <<>>
        /\ Len(free_blocks) = 1
        /\ free_blocks[1] = heap_start
        /\ size(mem, free_blocks[1]) = op.size
        /\ pred_size(mem, free_blocks[1]) = 0

\* Heap::new has returned for a size in bytes that is not a whole number of
\* words and holds at least two words.
C20_Witness ==
    /\ op.name = "Heap_new"
    /\ op.n % WORD_SIZE # 0
    /\ op.size >= 2
    /\ free_blocks = <<heap_start>>

\* Heap::new(op.n) has been called with a whole number of words and the host
\* allocator did not refuse the region.
NewCalled ==
    /\ op.call = "Heap_new"
    /\ op.n % WORD_SIZE = 0
    /\ fault # "no_region"

\* C21 (construction size limit): for size_bytes a whole multiple of W,
\* new(size_bytes) succeeds exactly when size_bytes / W <= HALF_WORD_MAX and
\* fails hard exactly when the size in words exceeds HALF_WORD_MAX.
C21_SizeLimit ==
    NewCalled =>
        /\ (op.name = "Heap_new") <=> (op.n \div WORD_SIZE <= HALF_WORD_MAX)
        /\ (op.name = "stop") <=> (op.n \div WORD_SIZE > HALF_WORD_MAX)

\* C22 (whole-heap allocation): on a fresh heap of S words, alloc(S - 1)
\* succeeds and leaves one used block and no free block; the block's own_size
\* is S and its pred_block(base) and next_block(end) are absent; freeing it
\* leaves no used block and one free block.
C22_WholeHeap ==
    [][/\ (steps = 0 /\ AllocCall /\ op'.n = HeapWords - 1)
          => /\ op'.name = "alloc"
             /\ op'.ret # None
             /\ Len(used_blocks') = 1
             /\ Len(free_blocks') = 0
             /\ size(mem', op'.ret - 1) = HeapWords
             /\ pred_block(mem', op'.ret - 1, heap_start) = None
             /\ next_block(mem', op'.ret - 1, heap_end) = None
       /\ (steps = 1 /\ op.name = "alloc" /\ op.n = HeapWords - 1 /\ steps' = 2
             /\ (op'.name = "free" \/ (op'.name = "stop" /\ op'.call = "free")))
          => /\ op'.name = "free"
             /\ Len(used_blocks') = 0
             /\ Len(free_blocks') = 1]_vars

\* The first call on the fresh heap was alloc(S - 1), and it returned an
\* address.
C22_Witness ==
    /\ steps = 1
    /\ op.name = "alloc"
    /\ op.n = HeapWords - 1
    /\ op.ret # None

\* write_at(op'.n, v) of the block at op'.arg has been called.
WriteCall ==
    /\ steps' = steps + 1
    /\ op'.name = "write_at" \/ (op'.name = "stop" /\ op'.call = "write_at")

\* C23 (write_at bounds): for a block of own_size s, write_at(offset, v)
\* stores v in the word at header + 1 + offset for every offset < s - 1 and
\* changes no other word; for every offset >= s - 1 it fails hard and writes
\* nothing.
C23_WriteAtBounds ==
    [][WriteCall =>
         IF op'.n < size(mem, op'.arg) - 1
         THEN /\ op'.name = "write_at"
              /\ mem' = [mem EXCEPT ![op'.arg + 1 + op'.n] = ObjValue]
         ELSE /\ op'.name = "stop"
              /\ mem' = mem]_vars

\* C24 (header layout): for half-word values p and s, the word built by
\* new(p, s) is p * 2^(bits of a half-word) + s, block_size() returns s and
\* pred_block_size() returns p.
C24_HeaderLayout ==
    op.name = "BlockHeader_new" =>
        /\ mem[0] = op.arg * (2 ^ HalfBits) + op.n
        /\ mem[0] % (2 ^ HalfBits) = op.n
        /\ mem[0] \div (2 ^ HalfBits) = op.arg
        /\ block_size(mem[0]) = op.n
        /\ pred_block_size(mem[0]) = op.arg

\* A header has been built from two different sizes, neither of them 0.
C24_Witness ==
    /\ op.name = "BlockHeader_new"
    /\ op.arg = HALF_WORD_MAX
    /\ op.n = Half \div 2

\* A mutator of the header has been called with op'.n.
HeaderCall(name) ==
    /\ steps' = steps + 1
    /\ op'.name = name \/ (op'.name = "stop" /\ op'.call = name)

\* C25 (header mutators are field-local): for every header and every value v
\* that keeps the result within the half-word range, set_size(v) makes
\* block_size() = v and inc_size(v) makes block_size() = old + v while
\* pred_block_size() is unchanged, and set_pred_size(v) makes
\* pred_block_size() = v while block_size() is unchanged.
C25_FieldLocal ==
    [][/\ HeaderCall("set_size")
          => /\ op'.name = "set_size"
             /\ block_size(mem'[0]) = op'.n
             /\ pred_block_size(mem'[0]) = pred_block_size(mem[0])
       /\ (HeaderCall("inc_size") /\ block_size(mem[0]) + op'.n <= HALF_WORD_MAX)
          => /\ op'.name = "inc_size"
             /\ block_size(mem'[0]) = block_size(mem[0]) + op'.n
             /\ pred_block_size(mem'[0]) = pred_block_size(mem[0])
       /\ HeaderCall("set_pred_size")
          => /\ op'.name = "set_pred_size"
             /\ pred_block_size(mem'[0]) = op'.n
             /\ block_size(mem'[0]) = block_size(mem[0])]_vars

\* inc_size has added a size to a header whose two fields were not 0, after
\* another mutator had changed the header.
C25_Witness ==
    /\ op.name = "inc_size"
    /\ steps = MaxHeaderOps
    /\ op.n > 1
    /\ pred_block_size(mem[0]) > 1
    /\ block_size(mem[0]) > op.n

\* An alloc that returned has split the free block it took: the block at
\* op'.ret - 1 was free and is smaller than it was.
AllocSplit ==
    /\ steps' = steps + 1
    /\ op'.name = "alloc"
    /\ op'.ret # None
    /\ contains(free_blocks, op'.ret - 1)
    /\ size(mem', op'.ret - 1) < size(mem, op'.ret - 1)

\* C26 (split updates the successor): when alloc splits a free block F that
\* is followed by a block N, then after the split N's pred_size is the
\* own_size of the new high block (F.own_size - total), the high block's
\* pred_size is total, and the low block keeps F's pred_size; total is n + 1,
\* an addition that did not overflow.
C26_SplitSuccessor ==
    [][(/\ AllocSplit
        /\ op'.n + 1 <= HALF_WORD_MAX
        /\ (op'.ret - 1) + size(mem, op'.ret - 1) < heap_end)
          => LET F == op'.ret - 1
                 total == op'.n + 1
                 N == F + size(mem, F)
             IN  /\ pred_size(mem', N) = size(mem, F) - total
                 /\ size(mem', F + total) = size(mem, F) - total
                 /\ pred_size(mem', F + total) = total
                 /\ pred_size(mem', F) = pred_size(mem, F)]_vars

\* Heap::num_used_blocks and Heap::num_free_blocks, of the vectors u and f.
num_used_blocks(u) == Len(u)

num_free_blocks(f) == Len(f)

\* The block whose header immediately follows b in address order.
AddrSucc(b) == CHOOSE q \in Blocks : q > b /\ \A r \in Blocks : r > b => q <= r

\* The address-neighbours of block b that are in free_blocks.
FreePredOf(b) == (\E p \in Blocks : p < b) /\ contains(free_blocks, AddrPred(b))

FreeSuccOf(b) == (\E q \in Blocks : q > b) /\ contains(free_blocks, AddrSucc(b))

\* A call of free(op'.arg), returned or not.
FreeCall ==
    /\ steps' = steps + 1
    /\ \/ op'.name = "free"
       \/ op'.name = "stop" /\ op'.call = "free"

\* C27 (coalescing arithmetic of free): in a state where P2 holds, free(a) of
\* a used block B decreases num_used_blocks by exactly 1 and changes
\* num_free_blocks by +1 when neither address-neighbour of B is free, by 0
\* when exactly one is and by -1 when both are; the resulting free block
\* starts at the free predecessor's header if there is one, else at B's, and
\* its own_size is the sum of the merged blocks' sizes.
C27_Coalescing ==
    [][(FreeCall /\ C3_Adjacency /\ contains(used_blocks, op'.arg - 1))
          => LET B == op'.arg - 1
                 start == IF FreePredOf(B) THEN AddrPred(B) ELSE B
                 merged == size(mem, B)
                           + (IF FreePredOf(B) THEN size(mem, AddrPred(B)) ELSE 0)
                           + (IF FreeSuccOf(B) THEN size(mem, AddrSucc(B)) ELSE 0)
                 gone == (IF FreePredOf(B) THEN 1 ELSE 0)
                         + (IF FreeSuccOf(B) THEN 1 ELSE 0)
             IN  /\ op'.name = "free"
                 /\ num_used_blocks(used_blocks') = num_used_blocks(used_blocks) - 1
                 /\ num_free_blocks(free_blocks') = num_free_blocks(free_blocks) + 1 - gone
                 /\ contains(free_blocks', start)
                 /\ size(mem', start) = merged]_vars

\* The addresses a collect call whose log is log has passed to free, in the
\* order of the calls.
FreedBy(log) ==
    [i \in 1 .. Len(SelectSeq(log, LAMBDA e : e.ev = "free"))
        |-> SelectSeq(log, LAMBDA e : e.ev = "free")[i].a]

\* C28 (sweep enumerates before it mutates): in collect the list of addresses
\* to free is computed completely, from used_blocks and the marks as they
\* stand once every root has been marked, before the first free; every free
\* of the sweep takes the next address of that list and leaves the rest of
\* the list as it was, whatever it writes, so what the collect has freed when
\* the sweep ends is that list.
C28_SweepList ==
    [][/\ (op.name = "gc_mark" /\ op'.name = "gc_sweep")
            => /\ op'.freeable = SelectSeq(UsedObjects(used_blocks),
                                           LAMBDA a : ~is_marked(mem, a))
               /\ FreedBy(op'.log) = <<>>
               /\ \A r \in op.roots :
                     \E i \in 1 .. Len(op.log) :
                         op.log[i].ev = "mark" /\ op.log[i].a = r
               /\ mem' = mem /\ used_blocks' = used_blocks
       /\ (op.name = "gc_sweep" /\ op'.name = "gc_sweep")
            => /\ op.freeable # <<>>
               /\ FreedBy(op'.log) = Append(FreedBy(op.log), Head(op.freeable))
               /\ op'.freeable = Tail(op.freeable)
       /\ (op.name = "gc_sweep" /\ op'.name = "gc_unmark")
            => /\ op.freeable = <<>>
               /\ FreedBy(op'.log) = FreedBy(op.log)
       /\ (op'.name \in GcPhases \cup {"gc_done"} /\ op.name \notin {"gc_mark", "gc_sweep"})
            => FreedBy(op'.log) = (IF op.name \in GcPhases THEN FreedBy(op.log) ELSE <<>>)]_vars

\* The sweep of a collect call has freed an object, has another one left to
\* free and one of the used objects it read is marked.
C28_Witness ==
    /\ op.name = "gc_sweep"
    /\ FreedBy(op.log) # <<>>
    /\ op.freeable # <<>>
    /\ \E i \in 1 .. Len(op.scanned) :
          contains(used_blocks, op.scanned[i] - 1) /\ is_marked(mem, op.scanned[i])

\* C29 (pred_size is zero only at the base): in every reachable state every
\* block of free_blocks and used_blocks has pred_size 0 if and only if its
\* header is at the base address, and has own_size at least 1.
C29_PredZeroAtBase ==
    \A b \in Blocks :
        /\ (pred_size(mem, b) = 0) <=> (b = heap_start)
        /\ size(mem, b) >= 1

\* C30 (neighbour navigation): in every reachable state, for every block B,
\* next_block(end) is the block whose header is at B.header + B.own_size when
\* that address is below end and absent otherwise, pred_block(base) is absent
\* when B.pred_size is 0 and otherwise the block whose header is at
\* B.header - B.pred_size; both results, when present, are headers of blocks
\* in free_blocks or used_blocks, the first block has no predecessor and the
\* last block has no successor.
C30_Navigation ==
    \A B \in Blocks :
        /\ next_block(mem, B, heap_end)
              = (IF B + size(mem, B) < heap_end THEN B + size(mem, B) ELSE None)
        /\ pred_block(mem, B, heap_start)
              = (IF pred_size(mem, B) = 0 THEN None ELSE B - pred_size(mem, B))
        /\ next_block(mem, B, heap_end) # None => next_block(mem, B, heap_end) \in Blocks
        /\ pred_block(mem, B, heap_start) # None => pred_block(mem, B, heap_start) \in Blocks
        /\ (\A q \in Blocks : B <= q) => pred_block(mem, B, heap_start) = None
        /\ (\A q \in Blocks : q <= B) => next_block(mem, B, heap_end) = None

\* How many entries of the vector s have the header address b.
Entries(s, b) == Cardinality({i \in 1 .. Len(s) : s[i] = b})

\* A call on the BlockSet has returned.
SetCall(name) == steps' = steps + 1 /\ op'.name = name

\* C31 (BlockSet keeps identity by header address): add_block of a block
\* that is not in the set puts it in, whatever the sizes of the blocks
\* already there (len grows by 1, so by 2 for two distinct blocks of equal
\* size, and contains is true for each); remove_block(b) deletes exactly one
\* entry with b's header address and leaves the vector as it was when b is
\* absent; no call changes the entries of another address, so contains(b) is
\* true exactly for the addresses added and not removed.
C31_SetIdentity ==
    [][/\ (SetCall("add_block") /\ ~contains(free_blocks, op'.arg))
            => /\ Len(free_blocks') = Len(free_blocks) + 1
               /\ contains(free_blocks', op'.arg)
               /\ Entries(free_blocks', op'.arg) = 1
               /\ \A x \in Words \ {op'.arg} :
                     Entries(free_blocks', x) = Entries(free_blocks, x)
       /\ (SetCall("remove_block") /\ contains(free_blocks, op'.arg))
            => /\ Len(free_blocks') = Len(free_blocks) - 1
               /\ Entries(free_blocks', op'.arg) = Entries(free_blocks, op'.arg) - 1
               /\ (Entries(free_blocks, op'.arg) = 1 => ~contains(free_blocks', op'.arg))
               /\ \A x \in Words \ {op'.arg} :
                     Entries(free_blocks', x) = Entries(free_blocks, x)
       /\ (SetCall("remove_block") /\ ~contains(free_blocks, op'.arg))
            => free_blocks' = free_blocks
       /\ (SetCall("get_block") /\ op'.ret # None)
            => /\ Entries(free_blocks', op'.ret) = Entries(free_blocks, op'.ret) - 1
               /\ \A x \in Words \ {op'.ret} :
                     Entries(free_blocks', x) = Entries(free_blocks, x)
       /\ (SetCall("get_block") /\ op'.ret = None)
            => free_blocks' = free_blocks
       /\ \A x \in Words : contains(free_blocks', x) <=> Entries(free_blocks', x) >= 1]_vars

\* Two distinct blocks of equal size are in the set, and a remove_block of a
\* third block that was absent has just returned.
C31_Witness ==
    /\ op.name = "remove_block"
    /\ ~contains(free_blocks, op.arg)
    /\ \E i, j \in 1 .. Len(free_blocks) :
          /\ free_blocks[i] # free_blocks[j]
          /\ size(mem, free_blocks[i]) = size(mem, free_blocks[j])

\* C32 (no duplicate entries): after every sequence of alloc, free (of a
\* live address) and collect calls, neither free_blocks nor used_blocks holds
\* two entries with the same header address.
C32_NoDuplicates ==
    /\ \A i, j \in 1 .. Len(free_blocks) : free_blocks[i] = free_blocks[j] => i = j
    /\ \A i, j \in 1 .. Len(used_blocks) : used_blocks[i] = used_blocks[j] => i = j

\* The step is a returned call that frees the used block b: free of its
\* address, or a gc in which its object was not marked.
FreesBlock(b) ==
    \/ op'.name = "free" /\ op'.arg - 1 = b
    \/ op'.name = "gc" /\ (b + 1) \notin op'.marked

\* C33 (a used block's size is stable): from the moment alloc returns a block
\* until that block is freed, explicitly or by collect, no alloc, free or
\* collect changes the block's own_size or its header address: a block that
\* is used before the call and is not freed by it is used after it, with the
\* own_size it had.
C33_UsedSizeStable ==
    [][(steps' = steps + 1 /\ op'.name \in {"alloc", "free", "gc"})
          => \A b \in Range(used_blocks) :
                ~FreesBlock(b)
                    => /\ contains(used_blocks', b)
                       /\ size(mem', b) = size(mem, b)]_vars

\* C34 (no wrap-around in the request size): alloc(n) computes total = n + 1
\* without wrapping, so alloc(HALF_WORD_MAX) is a request larger than every
\* free block: it returns no address and changes nothing; and no alloc leaves
\* a block of own_size 0 where there was none.
C34_NoWrap ==
    [][/\ (AllocCall /\ op'.n = HALF_WORD_MAX)
            => /\ op'.name = "alloc"
               /\ op'.ret = None
               /\ mem' = mem /\ free_blocks' = free_blocks /\ used_blocks' = used_blocks
       /\ (AllocCall /\ \A b \in Blocks : size(mem, b) >= 1)
            => \A b \in Range(free_blocks') \cup Range(used_blocks') : size(mem', b) >= 1]_vars

====
